---- MODULE Spec2Model ----
(***************************************************************************)
(* A model of the CalorieCurve backend (src/index.js): the two generator-  *)
(* backed request handlers, GET /api/foods and POST /api/suggestions, and  *)
(* the pure helpers they are built from.                                   *)
(*                                                                         *)
(* Representation.                                                         *)
(*   - A JavaScript string is a TLA+ string; Ch(s, i) is its i-th          *)
(*     character, counted from 1 (JavaScript counts from 0), and an index  *)
(*     of 0 stands for JavaScript's -1 ("not found").                      *)
(*   - The backquote character cannot be written inside a TLA+ string      *)
(*     literal, so the character "~" stands for it everywhere (Tick).      *)
(*   - A JavaScript number is an integer count of thousandths (1.3 is      *)
(*     1300), or NaN.  Arithmetic is exact; the binary rounding of IEEE    *)
(*     doubles is not modelled, and the inputs carry at most 3 decimals.   *)
(*   - A JavaScript value is a record of one fixed shape (see Undefined),  *)
(*     tagged by t with the value's typeof-like kind.                      *)
(*   - With(v, LAMBDA x : e) is e with x bound to v: a local constant of   *)
(*     the source (const x = v) that is evaluated once.                    *)
(***************************************************************************)
EXTENDS Integers, Sequences, FiniteSets, TLC

VARIABLES
    genAI,      \* whether GEMINI_API_KEY was set when the process started
    req,        \* per request: the handler's position and its local variables
    fn          \* a helper applied on its own: its input and what it returned

vars == <<genAI, req, fn>>

With(v, F(_)) == F(v)

----------------------------------------------------------------------------
(* Characters and strings *)

Ch(s, i) == SubSeq(s, i, i)

Tick == "~"

Fence == "~~~"

UpperCase == "ABCDEFGHIJKLMNOPQRSTUVWXYZ"

LowerCase == "abcdefghijklmnopqrstuvwxyz"

DigitChars == "0123456789"

Letters == {Ch(UpperCase, i) : i \in 1..26} \cup {Ch(LowerCase, i) : i \in 1..26}

Digits == {Ch(DigitChars, i) : i \in 1..10}

WhiteSpace == {" ", "\t", "\n", "\r"}

DigitVal == [c \in Digits |-> (CHOOSE i \in 1..10 : Ch(DigitChars, i) = c) - 1]

LowerOf ==
    [c \in {Ch(UpperCase, i) : i \in 1..26} |->
        Ch(LowerCase, CHOOSE i \in 1..26 : Ch(UpperCase, i) = c)]

LowerCh(c) == IF c \in DOMAIN LowerOf THEN LowerOf[c] ELSE c

RECURSIVE toLowerCase(_)
toLowerCase(s) ==
    IF s = "" THEN "" ELSE LowerCh(Head(s)) \o toLowerCase(Tail(s))

StartsWithAt(s, i, p) ==
    /\ i >= 1
    /\ i + Len(p) - 1 <= Len(s)
    /\ SubSeq(s, i, i + Len(p) - 1) = p

\* the positions where p occurs in s
Occurrences(s, p) == {i \in 1..(Len(s) - Len(p) + 1) : SubSeq(s, i, i + Len(p) - 1) = p}

LeastOrZero(set) == IF set = {} THEN 0 ELSE CHOOSE i \in set : \A j \in set : i <= j

GreatestOrZero(set) == IF set = {} THEN 0 ELSE CHOOSE i \in set : \A j \in set : i >= j

\* s.indexOf(p) searched from position i on; 0 when p does not occur
IndexFrom(s, p, i) == LeastOrZero({j \in Occurrences(s, p) : j >= i})

indexOf(s, p) == LeastOrZero(Occurrences(s, p))

\* the slip of searching the closing bracket from the front
firstIndexOf(s, p) == LeastOrZero(Occurrences(s, p))

lastIndexOf(s, p) == GreatestOrZero(Occurrences(s, p))

includes(s, p) == Occurrences(s, p) # {}

RECURSIVE SkipWhile(_, _, _)
SkipWhile(s, i, set) ==
    IF i <= Len(s) /\ Ch(s, i) \in set THEN SkipWhile(s, i + 1, set) ELSE i

RECURSIVE SkipBackWhile(_, _, _)
SkipBackWhile(s, i, set) ==
    IF i >= 1 /\ Ch(s, i) \in set THEN SkipBackWhile(s, i - 1, set) ELSE i

Between(s, a, b) == IF a > b THEN "" ELSE SubSeq(s, a, b)

trim(s) == Between(s, SkipWhile(s, 1, WhiteSpace), SkipBackWhile(s, Len(s), WhiteSpace))

----------------------------------------------------------------------------
(* Numbers: thousandths, parsed from and printed to decimal digits *)

RECURSIVE DigitsToInt(_, _)
DigitsToInt(s, acc) ==
    IF s = "" THEN acc ELSE DigitsToInt(Tail(s), 10 * acc + DigitVal[Head(s)])

\* the value, in thousandths, of the fraction digits f (those after the third are cut)
FractionToThousandths(f) == DigitsToInt(SubSeq(f \o "000", 1, 3), 0)

\* the value of a run of digits with an optional ".digits" part
DecimalValue(s) ==
    With(indexOf(s, "."), LAMBDA dot :
        IF dot = 0 THEN 1000 * DigitsToInt(s, 0)
        ELSE 1000 * DigitsToInt(SubSeq(s, 1, dot - 1), 0)
             + FractionToThousandths(SubSeq(s, dot + 1, Len(s))))

RECURSIVE IntToString(_)
IntToString(n) ==
    IF n < 10 THEN Ch(DigitChars, n + 1)
    ELSE IntToString(n \div 10) \o Ch(DigitChars, (n % 10) + 1)

RECURSIVE StripTrailingZeros(_)
StripTrailingZeros(d) ==
    IF d # "" /\ Ch(d, Len(d)) = "0" THEN StripTrailingZeros(SubSeq(d, 1, Len(d) - 1)) ELSE d

\* the digits after the point of fp thousandths: "", or "." and up to 3 digits
FractionDigits(fp) ==
    IF fp = 0 THEN ""
    ELSE "." \o StripTrailingZeros(
                    With(IntToString(fp), LAMBDA d : SubSeq("000", 1, 3 - Len(d)) \o d))

\* Number.prototype.toString of a finite number given in thousandths
NumberToString(n) ==
    With(IF n < 0 THEN -n ELSE n, LAMBDA m :
        (IF n < 0 THEN "-" ELSE "") \o IntToString(m \div 1000) \o FractionDigits(m % 1000))

----------------------------------------------------------------------------
(* JavaScript values *)

Undefined ==
    [t |-> "undefined", b |-> FALSE, n |-> 0, nan |-> FALSE, s |-> "", k |-> <<>>, a |-> <<>>]

Null == [Undefined EXCEPT !.t = "null"]

Bool(x) == [Undefined EXCEPT !.t = "boolean", !.b = x]

Num(x) == [Undefined EXCEPT !.t = "number", !.n = x]

NaN == [Undefined EXCEPT !.t = "number", !.nan = TRUE]

Str(x) == [Undefined EXCEPT !.t = "string", !.s = x]

Arr(xs) == [Undefined EXCEPT !.t = "array", !.a = xs]

\* an object: its keys in insertion order and, at the same positions, their values
Obj(ks, vs) == [Undefined EXCEPT !.t = "object", !.k = ks, !.a = vs]

Typeof(v) == IF v.t \in {"null", "array", "object"} THEN "object" ELSE v.t

isArray(v) == v.t = "array"

Truthy(v) ==
    CASE v.t \in {"undefined", "null"} -> FALSE
      [] v.t = "boolean" -> v.b
      [] v.t = "number" -> ~v.nan /\ v.n # 0
      [] v.t = "string" -> v.s # ""
      [] OTHER -> TRUE

\* v || w
Or(v, w) == IF Truthy(v) THEN v ELSE w

\* the position of key among the keys ks, 0 when it is not one
KeyIndex(ks, key) == LeastOrZero({i \in 1..Len(ks) : ks[i] = key})

\* v.key for an object or an array v (an array has none of the keys read here)
Get(v, key) ==
    IF v.t = "object" /\ KeyIndex(v.k, key) # 0 THEN v.a[KeyIndex(v.k, key)] ELSE Undefined

\* obj[key] = val as JSON.parse builds an object: a repeated key keeps its first
\* position and takes the last value
Put(o, key, val) ==
    IF KeyIndex(o.k, key) # 0 THEN [o EXCEPT !.a[KeyIndex(o.k, key)] = val]
    ELSE [o EXCEPT !.k = Append(o.k, key), !.a = Append(o.a, val)]

\* an unsigned StrDecimalLiteral m whose digits end before e1 and whose optional
\* fraction ends before e2
UnsignedLiteral(m, e1, e2) ==
    IF e2 = Len(m) + 1 /\ (e1 > 1 \/ e2 > e1 + 1)
    THEN Num(DecimalValue(IF e1 = 1 THEN "0" \o m ELSE m))
    ELSE NaN

Unsigned(m) ==
    With(SkipWhile(m, 1, Digits), LAMBDA e1 :
        UnsignedLiteral(m, e1,
            IF e1 <= Len(m) /\ Ch(m, e1) = "." THEN SkipWhile(m, e1 + 1, Digits) ELSE e1))

Negate(v) == IF v.nan THEN v ELSE Num(-v.n)

\* StringToNumber: optional sign, then digits with an optional fraction, or a
\* fraction alone; blank is 0; anything else is NaN.  (Exponents, hexadecimal and
\* "Infinity" are outside the model's alphabet.)
StringToNumber(str) ==
    With(trim(str), LAMBDA s :
        IF s = "" THEN Num(0)
        ELSE IF Head(s) = "-" THEN Negate(Unsigned(Tail(s)))
        ELSE Unsigned(IF Head(s) = "+" THEN Tail(s) ELSE s))

RECURSIVE String(_)
RECURSIVE JoinElements(_, _)
\* Array.prototype.join(","): null and undefined elements print as ""
JoinElements(xs, i) ==
    IF i > Len(xs) THEN ""
    ELSE (IF i > 1 THEN "," ELSE "")
         \o (IF xs[i].t \in {"null", "undefined"} THEN "" ELSE String(xs[i]))
         \o JoinElements(xs, i + 1)

String(v) ==
    CASE v.t = "undefined" -> "undefined"
      [] v.t = "null" -> "null"
      [] v.t = "boolean" -> IF v.b THEN "true" ELSE "false"
      [] v.t = "number" -> IF v.nan THEN "NaN" ELSE NumberToString(v.n)
      [] v.t = "string" -> v.s
      [] v.t = "array" -> JoinElements(v.a, 1)
      [] OTHER -> "[object Object]"

Number(v) ==
    CASE v.t = "undefined" -> NaN
      [] v.t = "null" -> Num(0)
      [] v.t = "boolean" -> Num(IF v.b THEN 1000 ELSE 0)
      [] v.t = "number" -> v
      [] v.t \in {"string", "array"} -> StringToNumber(String(v))
      [] OTHER -> NaN

----------------------------------------------------------------------------
(* JSON.parse: arrays, objects, strings, numbers without exponent, and the *)
(* three literals.  A parse step returns whether it succeeded, the value,  *)
(* and the position after it.                                              *)

Fail == [ok |-> FALSE, v |-> Undefined, i |-> 0]

Ok(v, i) == [ok |-> TRUE, v |-> v, i |-> i]

SkipWs(s, i) == SkipWhile(s, i, WhiteSpace)

\* the digits of a number start at j; its integer part ends before k
NumberFrom(s, neg, j, k) ==
    With(IF k <= Len(s) /\ Ch(s, k) = "." THEN SkipWhile(s, k + 1, Digits) ELSE k, LAMBDA m :
        IF m = k + 1 THEN Fail
        ELSE With(DecimalValue(SubSeq(s, j, m - 1)), LAMBDA val :
                Ok(Num(IF neg THEN -val ELSE val), m)))

\* -? (0 | [1-9][0-9]*) (. [0-9]+)?
ParseNumber(s, i) ==
    With(IF Ch(s, i) = "-" THEN i + 1 ELSE i, LAMBDA j :
        IF j > Len(s) \/ Ch(s, j) \notin Digits THEN Fail
        ELSE NumberFrom(s, j > i, j, IF Ch(s, j) = "0" THEN j + 1 ELSE SkipWhile(s, j, Digits)))

\* the character an escape \c stands for, "" when the model does not know it
\* (\b, \f and \uXXXX are outside the model's alphabet)
Unescape(c) ==
    CASE c \in {"\"", "\\", "/"} -> c
      [] c = "n" -> "\n"
      [] c = "t" -> "\t"
      [] c = "r" -> "\r"
      [] OTHER -> ""

\* i is the position after the opening quote
RECURSIVE ParseStringBody(_, _, _)
ParseStringBody(s, i, acc) ==
    IF i > Len(s) THEN Fail
    ELSE IF Ch(s, i) = "\"" THEN Ok(Str(acc), i + 1)
    ELSE IF Ch(s, i) \in {"\n", "\t", "\r"} THEN Fail
    ELSE IF Ch(s, i) # "\\" THEN ParseStringBody(s, i + 1, acc \o Ch(s, i))
    ELSE IF i + 1 > Len(s) \/ Unescape(Ch(s, i + 1)) = "" THEN Fail
    ELSE ParseStringBody(s, i + 2, acc \o Unescape(Ch(s, i + 1)))

RECURSIVE ParseValue(_, _)
RECURSIVE ParseElements(_, _, _)
RECURSIVE ParseMembers(_, _, _)

\* i is the position of an element's first character
ParseElements(s, i, acc) ==
    With(ParseValue(s, i), LAMBDA r :
        IF ~r.ok THEN Fail
        ELSE With(SkipWs(s, r.i), LAMBDA j :
                IF j > Len(s) THEN Fail
                ELSE IF Ch(s, j) = ","
                     THEN ParseElements(s, SkipWs(s, j + 1), Append(acc, r.v))
                ELSE IF Ch(s, j) = "]" THEN Ok(Arr(Append(acc, r.v)), j + 1)
                ELSE Fail))

\* the member whose key was parsed as key; c is the position of its colon
ParseMember(s, key, c, obj) ==
    IF ~key.ok \/ c > Len(s) \/ Ch(s, c) # ":" THEN Fail
    ELSE With(ParseValue(s, SkipWs(s, c + 1)), LAMBDA r :
            IF ~r.ok THEN Fail
            ELSE With(SkipWs(s, r.i), LAMBDA j :
                    IF j > Len(s) THEN Fail
                    ELSE IF Ch(s, j) = ","
                         THEN ParseMembers(s, SkipWs(s, j + 1), Put(obj, key.v.s, r.v))
                    ELSE IF Ch(s, j) = "}" THEN Ok(Put(obj, key.v.s, r.v), j + 1)
                    ELSE Fail))

\* i is the position of a member's key
ParseMembers(s, i, obj) ==
    IF i > Len(s) \/ Ch(s, i) # "\"" THEN Fail
    ELSE With(ParseStringBody(s, i + 1, ""), LAMBDA key :
            ParseMember(s, key, SkipWs(s, key.i), obj))

\* the value that starts with the character c at position i; j is the position
\* of the next character that is not white space
ValueAt(s, i, c, j) ==
    CASE c = "[" ->
            IF j <= Len(s) /\ Ch(s, j) = "]" THEN Ok(Arr(<<>>), j + 1)
            ELSE ParseElements(s, j, <<>>)
      [] c = "{" ->
            IF j <= Len(s) /\ Ch(s, j) = "}" THEN Ok(Obj(<<>>, <<>>), j + 1)
            ELSE ParseMembers(s, j, Obj(<<>>, <<>>))
      [] c = "\"" -> ParseStringBody(s, i + 1, "")
      [] c = "-" \/ c \in Digits -> ParseNumber(s, i)
      [] StartsWithAt(s, i, "null") -> Ok(Null, i + 4)
      [] StartsWithAt(s, i, "true") -> Ok(Bool(TRUE), i + 4)
      [] StartsWithAt(s, i, "false") -> Ok(Bool(FALSE), i + 5)
      [] OTHER -> Fail

ParseValue(s, i) ==
    IF i > Len(s) THEN Fail ELSE ValueAt(s, i, Ch(s, i), SkipWs(s, i + 1))

\* JSON.parse(s): ok is FALSE where JSON.parse throws a SyntaxError
JSON_parse(s) ==
    With(ParseValue(s, SkipWs(s, 1)), LAMBDA r :
        IF r.ok /\ SkipWs(s, r.i) > Len(s) THEN [ok |-> TRUE, v |-> r.v]
        ELSE [ok |-> FALSE, v |-> Undefined])

----------------------------------------------------------------------------
(* Helpers to handle AI responses that include code fences or extra text *)

\* .replace(/~~~[a-zA-Z]*\n?/g, ''), from position i on
RECURSIVE RemoveFenceTags(_, _)
RemoveFenceTags(s, i) ==
    With(IndexFrom(s, Fence, i), LAMBDA j :
        IF j = 0 THEN SubSeq(s, i, Len(s))
        ELSE SubSeq(s, i, j - 1)
             \o With(SkipWhile(s, j + 3, Letters), LAMBDA k :
                    RemoveFenceTags(s, IF k <= Len(s) /\ Ch(s, k) = "\n" THEN k + 1 ELSE k)))

\* .replace(/~~~/g, ''), from position i on
RECURSIVE RemoveFences(_, _)
RemoveFences(s, i) ==
    With(IndexFrom(s, Fence, i), LAMBDA j :
        IF j = 0 THEN SubSeq(s, i, Len(s))
        ELSE SubSeq(s, i, j - 1) \o RemoveFences(s, j + 3))

stripCodeFences(text) ==
    IF text = "" THEN ""
    ELSE trim(RemoveFences(RemoveFenceTags(text, 1), 1))

\* JSON.parse(text) when it is an array, else null
ParsedArray(text) ==
    With(JSON_parse(text), LAMBDA parsed :
        IF parsed.ok /\ isArray(parsed.v) THEN parsed.v ELSE Null)

\* cleaned.substring(start, end + 1) when both brackets are there, in this order
SliceBetween(cleaned, start, end) ==
    IF start # 0 /\ end # 0 /\ end > start THEN SubSeq(cleaned, start, end) ELSE ""

\* the parsed array, or null
safeParseJsonArrayFromText(text) ==
    With(stripCodeFences(text), LAMBDA cleaned :
        With(ParsedArray(cleaned), LAMBDA direct :
            IF direct # Null THEN direct
            ELSE ParsedArray(SliceBetween(cleaned, indexOf(cleaned, "["),
                                          lastIndexOf(cleaned, "]")))))

\* JSON.parse(text) when it is an object (an array is one too), else null
ParsedObject(text) ==
    With(JSON_parse(text), LAMBDA parsed :
        IF parsed.ok /\ Truthy(parsed.v) /\ Typeof(parsed.v) = "object" THEN parsed.v
        ELSE Null)

\* the parsed object, or null
safeParseJsonObjectFromText(text) ==
    With(stripCodeFences(text), LAMBDA cleaned :
        With(ParsedObject(cleaned), LAMBDA direct :
            IF direct # Null THEN direct
            ELSE ParsedObject(SliceBetween(cleaned, indexOf(cleaned, "{"),
                                           lastIndexOf(cleaned, "}")))))

----------------------------------------------------------------------------
(* The two regular expressions.  Both have the shape                       *)
(*     prefix (\d+(?:\.\d+)?) \s* (alternatives) suffix    with flag i     *)
(* and are matched greedily at the leftmost position that matches.  A unit *)
(* starts with a letter, so giving back digits, the fraction or blanks     *)
(* never turns a failed attempt into a match: no backtracking is needed    *)
(* beyond trying the alternatives in the order they are written.           *)

NoMatch == [found |-> FALSE, index |-> 0, end |-> 0, num |-> "", unit |-> ""]

\* whether the alternative alt matches s at i ignoring case, suffix following it
AlternativeAt(s, i, alt, suffix) ==
    /\ i + Len(alt) - 1 <= Len(s)
    /\ toLowerCase(SubSeq(s, i, i + Len(alt) - 1)) = toLowerCase(alt)
    /\ StartsWithAt(s, i + Len(alt), suffix)

\* the first alternative, in the order written, that matches at i; 0 when none does
FirstAlternative(s, i, alts, suffix) ==
    LeastOrZero({a \in 1..Len(alts) : AlternativeAt(s, i, alts[a], suffix)})

\* the match that starts at i with the number in d..(e2 - 1) and the unit at u
MatchFrom(s, i, d, e2, u, alts, suffix) ==
    With(FirstAlternative(s, u, alts, suffix), LAMBDA a :
        IF a = 0 THEN NoMatch
        ELSE [found |-> TRUE, index |-> i,
              end |-> u + Len(alts[a]) + Len(suffix),
              num |-> SubSeq(s, d, e2 - 1),
              unit |-> SubSeq(s, u, u + Len(alts[a]) - 1)])

\* the end of (?:\.\d+)? after digits that end before e1
FractionEnd(s, e1) ==
    IF e1 + 1 <= Len(s) /\ Ch(s, e1) = "." /\ Ch(s, e1 + 1) \in Digits
    THEN SkipWhile(s, e1 + 1, Digits)
    ELSE e1

\* an attempt to match at position i
MatchAt(s, i, prefix, alts, suffix) ==
    With(i + Len(prefix), LAMBDA d :
        With(SkipWhile(s, d, Digits), LAMBDA e1 :
            IF ~StartsWithAt(s, i, prefix) \/ e1 = d THEN NoMatch
            ELSE With(FractionEnd(s, e1), LAMBDA e2 :
                    MatchFrom(s, i, d, e2, SkipWhile(s, e2, WhiteSpace), alts, suffix))))

\* text.match(regex): the leftmost match
Match(s, prefix, alts, suffix) ==
    With(LeastOrZero({i \in 1..Len(s) : MatchAt(s, i, prefix, alts, suffix).found}), LAMBDA i :
        IF i = 0 THEN NoMatch ELSE MatchAt(s, i, prefix, alts, suffix))

AmountUnits ==
    <<"g", "gram", "grams", "kg", "ml", "mL", "milliliter", "milliliters", "l", "L">>

PortionUnits == <<"g", "ml">>

parseFloat(digits) == Num(DecimalValue(digits))

\* the grams of amount in the lower-cased unit
ToGrams(amount, unit) ==
    IF unit \in {"g", "gram", "grams"} THEN amount
    ELSE IF unit = "kg" THEN Num(amount.n * 1000)
    ELSE IF unit \in {"ml", "mL", "milliliter", "milliliters"} THEN amount
    ELSE IF unit \in {"l", "L"} THEN Num(amount.n * 1000)
    ELSE Null

\* text.replace(regex, '').trim()
RemoveMatch(text, match) ==
    trim(SubSeq(text, 1, match.index - 1) \o SubSeq(text, match.end, Len(text)))

parseAmountUnit(text) ==
    With(Match(text, "", AmountUnits, ""), LAMBDA match :
        IF text = "" \/ ~match.found
        THEN [grams |-> Null, unit |-> Null, amount |-> Null, baseText |-> text]
        ELSE With(parseFloat(match.num), LAMBDA amount :
             With(toLowerCase(match.unit), LAMBDA unit :
                [grams |-> ToGrams(amount, unit), unit |-> Str(unit), amount |-> amount,
                 baseText |-> RemoveMatch(text, match)])))

\* the number in the portion's "(<number><g|ml>)", or null
extractGramsFromPortion(portion) ==
    With(Match(portion, "(", PortionUnits, ")"), LAMBDA match :
        IF portion = "" \/ ~match.found THEN Null
        ELSE With(parseFloat(match.num), LAMBDA val :
                IF toLowerCase(match.unit) = "ml" THEN val ELSE val))

----------------------------------------------------------------------------
(* Scaling *)

numericKeys ==
    <<"calories", "protein", "fat", "carbs", "fiber", "sugar", "sodium", "iron", "zinc",
      "calcium", "vitaminB12", "vitaminD", "vitaminA", "omega3", "vitaminC", "magnesium",
      "potassium">>

NumericKeySet == {numericKeys[i] : i \in 1..Len(numericKeys)}

FieldNames == {"name", "portion"} \cup NumericKeySet

DefaultPortionGrams == 100

RECURSIVE GCD(_, _)
GCD(a, b) == IF b = 0 THEN a ELSE GCD(b, a % b)

\* a / b for positive a and b, kept exact as a reduced fraction
Divide(a, b) == With(GCD(a, b), LAMBDA g : [num |-> a \div g, den |-> b \div g])

\* the slip of cutting the digits after the second instead of rounding
toFixed2_Truncate(x, scale) ==
    With(IF x < 0 THEN -x ELSE x, LAMBDA m :
        With((m * scale.num) \div (10 * scale.den), LAMBDA h :
            IF x < 0 THEN -(10 * h) ELSE 10 * h))

\* +(x * scale).toFixed(2): to the nearest hundredth, a tie away from zero
toFixed2(x, scale) ==
    With(IF x < 0 THEN -x ELSE x, LAMBDA m :
        With((2 * m * scale.num + 10 * scale.den) \div (20 * scale.den), LAMBDA h :
            IF x < 0 THEN -(10 * h) ELSE 10 * h))

scaleNutrients(item, scale) ==
    [k \in DOMAIN item |->
        IF k \in NumericKeySet /\ Typeof(item[k]) = "number" /\ ~item[k].nan
        THEN Num(toFixed2(item[k].n, scale))
        ELSE item[k]]

----------------------------------------------------------------------------
(* GET /api/foods *)

Response(status, error, results, suggestions) ==
    [status |-> status, error |-> error, results |-> results, suggestions |-> suggestions]

\* a request that has not arrived: the handler's locals before it runs
Idle ==
    [kind |-> "none", pc |-> "idle", query |-> "",
     desiredGrams |-> Null, unit |-> Null, amount |-> Null, baseText |-> "",
     prompt |-> [food |-> "", meals |-> Undefined],
     calls |-> 0, reply |-> [ok |-> FALSE, text |-> ""],
     data |-> Undefined, normalized |-> <<>>, out |-> <<>>]

\* res.status(..).json(..) followed by the handler's return
Respond(st, response) == [st EXCEPT !.out = Append(@, response), !.pc = "done"]

\* model.generateContent(prompt), awaited
Generate(st) == [st EXCEPT !.calls = @ + 1, !.pc = "awaiting"]

\* the slip of keeping only the elements that carry a name
IsNamedObject(item) ==
    Truthy(item) /\ Typeof(item) = "object" /\ Truthy(Get(item, "name"))

\* item && typeof item === 'object'
IsObjectElement(item) == Truthy(item) /\ Typeof(item) = "object"

\* the record built from one element of the model's array
Sanitize(item, query) ==
    [k \in FieldNames |->
        CASE k = "name" -> Str(String(Or(Get(item, "name"), Str(query))))
          [] k = "portion" -> Str(String(Or(Get(item, "portion"), Str("1 serving (100g)"))))
          [] OTHER -> Number(Or(Get(item, k), Num(0)))]

RECURSIVE Normalize(_, _, _)
\* data.filter(..).map(..), from element i on
Normalize(data, i, query) ==
    IF i > Len(data) THEN <<>>
    ELSE (IF IsObjectElement(data[i]) THEN <<Sanitize(data[i], query)>> ELSE <<>>)
         \o Normalize(data, i + 1, query)

\* the slip of taking every portion for 100 g
ScaleFor_PerHundred(item, desiredGrams) ==
    Divide(desiredGrams.n, DefaultPortionGrams * 1000)

\* desiredGrams / portionGrams, or desiredGrams / 100 when the portion names no
\* positive amount
ScaleFor(item, desiredGrams) ==
    With(extractGramsFromPortion(item["portion"].s), LAMBDA portionGrams :
        IF Truthy(portionGrams) /\ portionGrams.n > 0
        THEN Divide(desiredGrams.n, portionGrams.n)
        ELSE Divide(desiredGrams.n, DefaultPortionGrams * 1000))

LabelUnit(unit) ==
    IF Truthy(unit) /\ (includes(toLowerCase(unit.s), "l") \/ includes(toLowerCase(unit.s), "ml"))
    THEN "ml"
    ELSE "g"

CustomPortion(amount, unit) ==
    "custom serving (" \o String(amount) \o LabelUnit(unit) \o ")"

ScaleItem(item, desiredGrams, unit, amount) ==
    [scaleNutrients(item, ScaleFor(item, desiredGrams))
        EXCEPT !["portion"] = Str(CustomPortion(amount, unit))]

\* the records sent: scaled when the query carried an amount
ScaleAll(normalized, desiredGrams, unit, amount) ==
    IF Truthy(desiredGrams) /\ Len(normalized) # 0
    THEN [i \in 1..Len(normalized) |-> ScaleItem(normalized[i], desiredGrams, unit, amount)]
    ELSE normalized

\* the handler, from the parsed query to its await
FoodsAsk(st, parsed) ==
    Generate([st EXCEPT
                !.desiredGrams = parsed.grams, !.unit = parsed.unit,
                !.amount = parsed.amount, !.baseText = parsed.baseText,
                !.prompt.food = Or(Str(parsed.baseText), Str(st.query)).s])

\* the handler up to its await
FoodsBegin(st, rawQuery) ==
    With(trim(String(Or(rawQuery, Str("")))), LAMBDA query :
        With([st EXCEPT !.kind = "foods", !.query = query], LAMBDA started :
            IF query = ""
            THEN Respond(started, Response(400, "Missing query parameter", <<>>, <<>>))
            ELSE IF ~genAI
            THEN Respond(started,
                         Response(500, "GEMINI_API_KEY not configured on server", <<>>, <<>>))
            ELSE FoodsAsk(started, parseAmountUnit(query))))

\* the slip of calling the generator once more after a failure
FoodsCatch_Retry(st) ==
    IF st.calls < 2 THEN Generate(st)
    ELSE Respond(st, Response(502, "Gemini foods request failed", <<>>, <<>>))

FoodsCatch(st) ==
    Respond(st, Response(502, "Gemini foods request failed", <<>>, <<>>))

\* the slip of answering a text without an array like a failed call
FoodsFormatError_AsFailure(st) ==
    Respond(st, Response(502, "Gemini foods request failed", <<>>, <<>>))

FoodsFormatError(st) ==
    Respond(st, Response(502, "Invalid AI response format", <<>>, <<>>))

\* the handler once the model's text gave the array data
FoodsAnswer(st, data) ==
    With(Normalize(data.a, 1, st.query), LAMBDA normalized :
        Respond([st EXCEPT !.data = data, !.normalized = normalized],
                Response(200, "",
                         ScaleAll(normalized, st.desiredGrams, st.unit, st.amount), <<>>)))

\* the handler from its await on, the generator having settled with reply
FoodsResume(st, reply) ==
    With([st EXCEPT !.reply = reply], LAMBDA got :
        IF ~reply.ok THEN FoodsCatch(got)
        ELSE With(safeParseJsonArrayFromText(Or(Str(reply.text), Str("")).s), LAMBDA data :
                IF ~Truthy(data) THEN FoodsFormatError([got EXCEPT !.data = data])
                ELSE FoodsAnswer(got, data)))

----------------------------------------------------------------------------
(* POST /api/suggestions *)

MaxSuggestions == 6

MaxPromptMeals == 10

slice(xs, n) == SubSeq(xs, 1, IF Len(xs) < n THEN Len(xs) ELSE n)

SuggestionsBegin(st, body) ==
    With([st EXCEPT !.kind = "suggestions"], LAMBDA started :
        IF ~Truthy(body.totalNutrients) \/ ~Truthy(body.dailyGoals)
        THEN Respond(started,
                     Response(400, "Missing totalNutrients or dailyGoals", <<>>, <<>>))
        ELSE IF ~genAI
        THEN Respond(started,
                     Response(500, "GEMINI_API_KEY not configured on server", <<>>, <<>>))
        ELSE Generate([started EXCEPT !.prompt.meals =
                          IF isArray(body.meals)
                          THEN Arr(slice(body.meals.a, MaxPromptMeals))
                          ELSE Undefined]))

SuggestionsCatch(st) ==
    Respond(st, Response(502, "Gemini suggestions request failed", <<>>, <<>>))

SuggestionsSchemaError(st) ==
    Respond(st, Response(502, "AI response missing suggestions array", <<>>, <<>>))

\* s && s.trim()
NonBlank(s) == s # "" /\ trim(s) # ""

RECURSIVE NonBlankStrings(_, _)
\* .map(s => String(s)).filter(s => s && s.trim()), from entry i on
NonBlankStrings(xs, i) ==
    IF i > Len(xs) THEN <<>>
    ELSE With(String(xs[i]), LAMBDA s : IF NonBlank(s) THEN <<s>> ELSE <<>>)
         \o NonBlankStrings(xs, i + 1)

\* the slip of cutting to 6 before the blank entries are removed
SelectSuggestions_SliceFirst(entries) == NonBlankStrings(slice(entries, MaxSuggestions), 1)

\* parsed.suggestions.map(..).filter(..).slice(0, 6)
SelectSuggestions(entries) == slice(NonBlankStrings(entries, 1), MaxSuggestions)

SuggestionsResume(st, reply) ==
    With([st EXCEPT !.reply = reply], LAMBDA got :
        IF ~reply.ok THEN SuggestionsCatch(got)
        ELSE With(safeParseJsonObjectFromText(Or(Str(reply.text), Str("")).s), LAMBDA parsed :
                IF ~Truthy(parsed) \/ ~isArray(Get(parsed, "suggestions"))
                THEN SuggestionsSchemaError([got EXCEPT !.data = parsed])
                ELSE Respond([got EXCEPT !.data = parsed],
                             Response(200, "", <<>>,
                                      SelectSuggestions(Get(parsed, "suggestions").a)))))

----------------------------------------------------------------------------
(* The requests and what the generator answers: the bounded inputs *)

NumRequests == 2

MaxItems == 2

MaxEntries == 2

MaxTips == 7

MaxMeals == 11

SeqsUpTo(set, n) == UNION {[1..m -> set] : m \in 0..n}

RECURSIVE Join(_, _)
Join(texts, i) ==
    IF i > Len(texts) THEN ""
    ELSE (IF i > 1 THEN "," ELSE "") \o texts[i] \o Join(texts, i + 1)

ArrayText(texts) == "[" \o Join(texts, 1) \o "]"

\* the query parameter as Express hands it over: absent, or a string
FoodQueries ==
    {Undefined, Str("  "), Str(" apple "), Str("banana 150g"), Str("banana 118g"),
     Str("banana 0g"), Str("milk 250ml"), Str("milk 0.25 L"), Str("2kg rice"),
     Str("oil 1.5l"), Str("rice 150grams"), Str("water 250 mL"), Str("3 large eggs")}

Banana ==
    "{\"name\":\"Banana\",\"portion\":\"1 medium (118g)\",\"calories\":105,"
    \o "\"protein\":1.3,\"iron\":0.314,\"zinc\":0.125}"

Milk == "{\"name\":\"Milk\",\"portion\":\"1 cup (250 ml)\",\"calories\":61.5,\"fat\":3.25}"

Rice == "{\"portion\":\"a cup\",\"calories\":\"130\",\"carbs\":28.7,\"sodium\":-1}"

Broken ==
    "{\"name\":\"\",\"portion\":\"(0g)\",\"calories\":\"abc\",\"protein\":-5,\"fat\":null,"
    \o "\"fiber\":true,\"sugar\":[],\"sodium\":{},\"iron\":\" \"}"

ElementTexts == {Banana, Milk, Rice, Broken, "5", "null", "[7]"}

FoodTexts ==
    {ArrayText(xs) : xs \in SeqsUpTo(ElementTexts, MaxItems)}
    \cup {Fence \o "json\n[" \o Banana \o "]\n" \o Fence \o "\nHope this helps!",
          "Sorry, I have no data on that.", "", "{\"name\":\"Banana\"}"}

GeneratorFails == [ok |-> FALSE, text |-> ""]

FoodReplies == {GeneratorFails} \cup {[ok |-> TRUE, text |-> t] : t \in FoodTexts}

Totals == Obj(<<"calories">>, <<Num(1200000)>>)

Goals == Obj(<<"calories">>, <<Num(2000000)>>)

Meals(n) == Arr([i \in 1..n |-> Str("meal " \o IntToString(i))])

SuggestionBodies ==
    {[totalNutrients |-> Totals, dailyGoals |-> Goals, meals |-> m] :
        m \in {Undefined, Meals(0), Meals(MaxMeals)}}
    \cup {[totalNutrients |-> Undefined, dailyGoals |-> Goals, meals |-> Undefined],
          [totalNutrients |-> Totals, dailyGoals |-> Undefined, meals |-> Undefined]}

EntryTexts == {"\"Add 1 cup Greek yogurt\"", "\" \"", "\"\"", "5", "null", "[]"}

Tips(n) == [i \in 1..n |-> "\"tip " \o IntToString(i) \o "\""]

SuggestionTexts ==
    {"{\"suggestions\":" \o ArrayText(xs \o Tips(n)) \o "}" :
        xs \in SeqsUpTo(EntryTexts, MaxEntries), n \in 0..MaxTips}
    \cup {Fence \o "json\n{\"suggestions\":[\"Eat more greens\"]}\n" \o Fence,
          "I cannot help with that.", "", "{\"suggestions\":\"eat\"}", "{\"tips\":[]}",
          "[\"Eat more greens\"]"}

SuggestionReplies == {GeneratorFails} \cup {[ok |-> TRUE, text |-> t] : t \in SuggestionTexts}

\* the few inputs of the runs with several requests in flight
FewFoodQueries == {Undefined, Str("banana 150g")}

FewFoodReplies ==
    {GeneratorFails,
     [ok |-> TRUE, text |-> "Sorry, I have no data on that."],
     [ok |-> TRUE, text |-> "{\"name\":\"Banana\"}"],
     [ok |-> TRUE, text |-> ArrayText(<<Banana>>)]}

FewSuggestionBodies ==
    {[totalNutrients |-> Totals, dailyGoals |-> Goals, meals |-> Undefined],
     [totalNutrients |-> Undefined, dailyGoals |-> Goals, meals |-> Undefined]}

FewSuggestionReplies ==
    {GeneratorFails,
     [ok |-> TRUE, text |-> "I cannot help with that."],
     [ok |-> TRUE, text |-> "{\"suggestions\":[\"Eat more greens\"]}"]}

----------------------------------------------------------------------------
(* The state machine *)

IdleFn == [applied |-> FALSE]

Init ==
    /\ genAI \in BOOLEAN
    /\ req = [r \in {1} |-> Idle]
    /\ fn = IdleFn

ConcInit ==
    /\ genAI \in BOOLEAN
    /\ req = [r \in 1..NumRequests |-> Idle]
    /\ fn = IdleFn

\* GET /api/foods arrives and runs to its await, or to an early response
FoodsArrive(r, queries) ==
    /\ req[r].pc = "idle"
    /\ \E rawQuery \in queries : req' = [req EXCEPT ![r] = FoodsBegin(req[r], rawQuery)]
    /\ UNCHANGED <<genAI, fn>>

\* the generator settles and the handler runs to its end
FoodsSettle(r, replies) ==
    /\ req[r].pc = "awaiting"
    /\ req[r].kind = "foods"
    /\ \E reply \in replies : req' = [req EXCEPT ![r] = FoodsResume(req[r], reply)]
    /\ UNCHANGED <<genAI, fn>>

SuggestionsArrive(r, bodies) ==
    /\ req[r].pc = "idle"
    /\ \E body \in bodies : req' = [req EXCEPT ![r] = SuggestionsBegin(req[r], body)]
    /\ UNCHANGED <<genAI, fn>>

SuggestionsSettle(r, replies) ==
    /\ req[r].pc = "awaiting"
    /\ req[r].kind = "suggestions"
    /\ \E reply \in replies : req' = [req EXCEPT ![r] = SuggestionsResume(req[r], reply)]
    /\ UNCHANGED <<genAI, fn>>

Next ==
    \E r \in DOMAIN req :
        \/ FoodsArrive(r, FoodQueries)
        \/ FoodsSettle(r, FoodReplies)
        \/ SuggestionsArrive(r, SuggestionBodies)
        \/ SuggestionsSettle(r, SuggestionReplies)

\* one request, every input
Spec == Init /\ [][Next]_vars

GeneratorSettles(r) ==
    \/ FoodsSettle(r, FewFoodReplies)
    \/ SuggestionsSettle(r, FewSuggestionReplies)

ConcNext ==
    \E r \in DOMAIN req :
        \/ FoodsArrive(r, FewFoodQueries)
        \/ SuggestionsArrive(r, FewSuggestionBodies)
        \/ GeneratorSettles(r)

\* several requests in flight; the promise generateContent returns settles, and
\* the event loop then runs the handler's continuation
ConcSpec ==
    /\ ConcInit
    /\ [][ConcNext]_vars
    /\ \A r \in 1..NumRequests : WF_vars(GeneratorSettles(r))

----------------------------------------------------------------------------
(* safeParseJsonArrayFromText applied on its own to a JSON array literal   *)
(* that is wrapped in prose and fences                                     *)

JsonArrays ==
    {"[]", "[1,[2,3]]", "[{\"a\":[1]}]", "[\"x]y\"]", "[\"a [b\"]",
     "[\"" \o Fence \o "\"]", ArrayText(<<Banana>>)}

LeadingProse == {"", "Here is the JSON:\n", "See [1]: ", "Top 3) "}

OpeningFences == {"", Fence, Fence \o "json\n", Fence \o "\n"}

ClosingFences == {"", Fence, "\n" \o Fence}

TrailingProse == {"", "\nHope this helps!", " (values per serving]", "\n[end]"}

ExtractInputs ==
    {[applied |-> FALSE, lead |-> l, open |-> o, json |-> j, close |-> c, trail |-> t,
      text |-> l \o o \o j \o c \o t, result |-> Undefined] :
        l \in LeadingProse, o \in OpeningFences, j \in JsonArrays,
        c \in ClosingFences, t \in TrailingProse}

ExtractInit ==
    /\ genAI = TRUE
    /\ req = <<>>
    /\ fn \in ExtractInputs

ExtractArray ==
    /\ ~fn.applied
    /\ fn' = [fn EXCEPT !.applied = TRUE, !.result = safeParseJsonArrayFromText(fn.text)]
    /\ UNCHANGED <<genAI, req>>

ExtractNext == ExtractArray

ExtractSpec == ExtractInit /\ [][ExtractNext]_vars

----------------------------------------------------------------------------
(* parseAmountUnit applied on its own to the trimmed query of a request:   *)
(* food text around a number, optional white space and a unit token, or    *)
(* food text alone                                                         *)

TextBefore == {"", "rice ", "whole milk "}

AmountDigits == {"150", "2", "0.25", "1.5"}

Gaps == {"", " "}

TextAfter == {"", " rice", " cooked"}

UnitTokens == {AmountUnits[i] : i \in 1..Len(AmountUnits)}

PlainQueries == {"apple", "brown rice", "vitamin b12", "7 up", "eggs x 3"}

ParseInputs ==
    {[applied |-> FALSE, before |-> b, number |-> n, gap |-> g, unit |-> u, after |-> a,
      query |-> trim(b \o n \o g \o u \o a), result |-> Undefined] :
        b \in TextBefore, n \in AmountDigits, g \in Gaps, u \in UnitTokens, a \in TextAfter}
    \cup {[applied |-> FALSE, before |-> q, number |-> "", gap |-> "", unit |-> "",
           after |-> "", query |-> q, result |-> Undefined] : q \in PlainQueries}

ParseInit ==
    /\ genAI = TRUE
    /\ req = <<>>
    /\ fn \in ParseInputs

ParseQuantity ==
    /\ ~fn.applied
    /\ fn' = [fn EXCEPT !.applied = TRUE, !.result = parseAmountUnit(fn.query)]
    /\ UNCHANGED <<genAI, req>>

ParseNext == ParseQuantity

ParseSpec == ParseInit /\ [][ParseNext]_vars

----------------------------------------------------------------------------
(* What the properties below read from a request *)

Requests == DOMAIN req

FoodsDone(r) == req[r].kind = "foods" /\ req[r].pc = "done" /\ req[r].calls = 1

SuggestionsDone(r) == req[r].kind = "suggestions" /\ req[r].pc = "done" /\ req[r].calls = 1

Answer(r) == req[r].out[1]

FoodsOk(r) == FoodsDone(r) /\ Answer(r).status = 200

\* the lookup answered with records scaled to the quantity of its query
Scaled(r) == FoodsOk(r) /\ req[r].desiredGrams.t = "number" /\ req[r].desiredGrams.n # 0

\* typeof v is 'object' and v is not null
ObjectTyped(v) == v.t \in {"object", "array"}

\* the object-typed elements of the model's array, in its order
ObjectElements(r) == SelectSeq(req[r].data.a, ObjectTyped)

Abs(x) == IF x < 0 THEN -x ELSE x

ValidAmount(v) == v.t = "number" /\ ~v.nan /\ v.n >= 0

\* what a numeric field v built from the raw value raw has to be
FieldAsSpecified(v, raw) ==
    /\ ValidAmount(v)
    /\ ValidAmount(raw) => v = raw
    /\ (raw.t \in {"undefined", "null"} \/ (raw.t = "number" /\ ~ValidAmount(raw))) => v = Num(0)

\* C1: every record the normalization of a lookup emits for an object-typed element
\* of the model's array has the 19 fields, name and portion strings, and each of the
\* 17 numeric fields a non-negative number that is not NaN: the raw value when that
\* is a valid non-negative number, 0 when it is missing, NaN or negative.
C1_NormalizedFieldsValid ==
    \A r \in Requests :
        FoodsOk(r) =>
            /\ Len(req[r].normalized) = Len(ObjectElements(r))
            /\ \A i \in 1..Len(req[r].normalized) :
                /\ Cardinality(DOMAIN req[r].normalized[i]) = 19
                /\ req[r].normalized[i]["name"].t = "string"
                /\ req[r].normalized[i]["portion"].t = "string"
                /\ \A k \in NumericKeySet :
                    FieldAsSpecified(req[r].normalized[i][k], Get(ObjectElements(r)[i], k))

GeneratorFailed(r) == FoodsDone(r) /\ ~req[r].reply.ok

NoArrayInText(r) ==
    /\ FoodsDone(r)
    /\ req[r].reply.ok
    /\ safeParseJsonArrayFromText(req[r].reply.text) = Null

\* C2: a lookup whose generator call fails ends with the generator error, a lookup
\* whose generator text yields no JSON array ends with the format error; the two
\* responses differ, and neither carries any record.
C2_ErrorSignals ==
    /\ \A r \in Requests :
        GeneratorFailed(r) =>
            /\ Answer(r).status >= 400
            /\ Answer(r).error = "Gemini foods request failed"
            /\ Answer(r).results = <<>>
    /\ \A r \in Requests :
        NoArrayInText(r) =>
            /\ Answer(r).status >= 400
            /\ Answer(r).error = "Invalid AI response format"
            /\ Answer(r).results = <<>>
    /\ \A r1, r2 \in Requests :
        GeneratorFailed(r1) /\ NoArrayInText(r2) => Answer(r1) # Answer(r2)

C2_BothErrorsSeen ==
    \E r1, r2 \in Requests :
        /\ GeneratorFailed(r1)
        /\ NoArrayInText(r2)
        /\ Answer(r1).status = 502
        /\ Answer(r2).status = 502

\* C3: with lookups and suggestion requests interleaved in any way, every request
\* calls the generator at most once, has sent exactly one response when it is done
\* and none before, and every request that arrived is eventually done.
C3_OneCallOneResponse ==
    /\ [](\A r \in Requests :
            /\ req[r].calls <= 1
            /\ Len(req[r].out) <= 1
            /\ (req[r].pc = "done") <=> (Len(req[r].out) = 1))
    /\ \A r \in 1..NumRequests : (req[r].pc # "idle") ~> (req[r].pc = "done")

C3_FailedCallAnswered ==
    /\ req[1].kind = "foods" /\ req[1].pc = "done"
    /\ req[1].calls = 1 /\ ~req[1].reply.ok /\ Len(req[1].out) = 1
    /\ req[2].kind = "suggestions" /\ req[2].pc = "done"
    /\ req[2].calls = 1 /\ Answer(2).status = 200

\* C4 as the specification states it: whatever fences and prose wrap a valid JSON
\* array literal, the extraction returns the array JSON.parse gives for the literal.
C4_AnyWrapping ==
    fn.applied => fn.result = JSON_parse(fn.json).v

BracketFree(s) == ~includes(s, "[") /\ ~includes(s, "]")

\* C4: when the JSON array literal holds no fence marker and the prose around it
\* holds no square bracket, the extraction returns the array JSON.parse gives for
\* the literal, whatever fences and prose wrap it.
C4_BracketFreeProse ==
    (fn.applied /\ BracketFree(fn.lead) /\ BracketFree(fn.trail) /\ ~includes(fn.json, Fence))
        => fn.result = JSON_parse(fn.json).v

C4_FencedWithProse ==
    /\ fn.applied
    /\ fn.lead = "Here is the JSON:\n"
    /\ fn.open = Fence \o "json\n"
    /\ fn.json = "[1,[2,3]]"
    /\ fn.close = "\n" \o Fence
    /\ fn.trail = "\nHope this helps!"
    /\ fn.result = Arr(<<Num(1000), Arr(<<Num(2000), Num(3000)>>)>>)

\* the reference amount of a portion, in thousandths: what the portion names when
\* that is positive, 100 otherwise
Reference(portion) ==
    With(extractGramsFromPortion(portion), LAMBDA g :
        IF g.t = "number" /\ g.n > 0 THEN g.n ELSE 100000)

\* out is x * ratio rounded to 2 decimals (NaN when x is NaN)
RoundedProduct(out, x, ratio) ==
    /\ out.t = "number"
    /\ out.nan = x.nan
    /\ ~x.nan =>
        /\ out.n % 10 = 0
        /\ Abs(out.n * ratio.den - x.n * ratio.num) <= 5 * ratio.den

\* C5: when the query carries a quantity with non-zero desiredGrams, every numeric
\* field of every returned record is the normalized field times
\* desiredGrams / reference rounded to 2 decimals, the reference being the amount
\* the record's portion names when that is positive and 100 otherwise.
C5_ScaledByRatio ==
    \A r \in Requests :
        Scaled(r) =>
            /\ Len(Answer(r).results) = Len(req[r].normalized)
            /\ \A i \in 1..Len(req[r].normalized) : \A k \in NumericKeySet :
                RoundedProduct(Answer(r).results[i][k], req[r].normalized[i][k],
                               Divide(req[r].desiredGrams.n,
                                      Reference(req[r].normalized[i]["portion"].s)))

C5_BananaScaled ==
    /\ Scaled(1)
    /\ req[1].query = "banana 150g"
    /\ Len(Answer(1).results) = 1
    /\ req[1].normalized[1]["portion"] = Str("1 medium (118g)")
    /\ req[1].normalized[1]["calories"] = Num(105000)
    /\ Answer(1).results[1]["calories"] = Num(133470)
    /\ Answer(1).results[1]["iron"] = Num(400)

\* the factor of a unit token as written: 1000 for kg, l and L, 1 for the others
Factor(u) == IF u \in {"kg", "l", "L"} THEN 1000 ELSE 1

\* C6: for a query of food text around a number, optional white space and a unit
\* token, the parse gives grams = number x factor(unit), the unit token as it is
\* written, and the query without the whole number+unit span, trimmed; for a query
\* without such a pattern it gives null amount, unit and grams and the trimmed query.
C6_ParsedAsWritten ==
    fn.applied =>
        IF fn.unit = ""
        THEN /\ fn.result.grams = Null
             /\ fn.result.unit = Null
             /\ fn.result.amount = Null
             /\ fn.result.baseText = trim(fn.query)
        ELSE /\ fn.result.grams = Num(DecimalValue(fn.number) * Factor(fn.unit))
             /\ fn.result.unit = Str(fn.unit)
             /\ fn.result.baseText = trim(fn.before \o fn.after)

SuggestionsFound(r) ==
    /\ SuggestionsDone(r)
    /\ req[r].reply.ok
    /\ isArray(Get(safeParseJsonObjectFromText(req[r].reply.text), "suggestions"))

SuggestionsMissing(r) ==
    /\ SuggestionsDone(r)
    /\ req[r].reply.ok
    /\ ~isArray(Get(safeParseJsonObjectFromText(req[r].reply.text), "suggestions"))

Blank(s) == trim(s) = ""

NotBlank(s) == ~Blank(s)

\* the entries as strings, the blank ones left out, at most n of them
FirstKept(entries, n) ==
    With(SelectSeq([i \in 1..Len(entries) |-> String(entries[i])], NotBlank), LAMBDA kept :
        SubSeq(kept, 1, IF Len(kept) < n THEN Len(kept) ELSE n))

\* C7: when the generator's text yields an object with an array-valued suggestions
\* field, the response carries the entries as strings, blank and white-space-only
\* ones removed, in their order, cut to the first 6 that remain; when the text
\* yields no such object the response is the schema error and carries no suggestion.
C7_SuggestionsSelected ==
    \A r \in Requests :
        /\ SuggestionsFound(r) =>
            /\ Answer(r).status = 200
            /\ Answer(r).suggestions =
                FirstKept(Get(safeParseJsonObjectFromText(req[r].reply.text), "suggestions").a, 6)
        /\ SuggestionsMissing(r) =>
            /\ Answer(r).status = 502
            /\ Answer(r).error = "AI response missing suggestions array"
            /\ Answer(r).suggestions = <<>>

C7_TruncatedAfterBlank ==
    /\ SuggestionsFound(1)
    /\ Len(Get(req[1].data, "suggestions").a) = 8
    /\ Blank(String(Get(req[1].data, "suggestions").a[1]))
    /\ Answer(1).suggestions = <<"tip 1", "tip 2", "tip 3", "tip 4", "tip 5", "tip 6">>

\* record i of the lookup was scaled to the very amount its own portion names
SelfScaled(r, i) ==
    /\ Scaled(r)
    /\ i \in 1..Len(req[r].normalized)
    /\ extractGramsFromPortion(req[r].normalized[i]["portion"].s) = req[r].desiredGrams

\* C8 as the specification states it: scaling a record to the amount its own
\* portion names returns the 17 numeric fields equal to the input's.
C8_RatioOneIdentity ==
    \A r \in Requests : \A i \in 1..Len(req[r].normalized) :
        SelfScaled(r, i) =>
            \A k \in NumericKeySet : Answer(r).results[i][k] = req[r].normalized[i][k]

\* out is x rounded to 2 decimals (NaN when x is NaN)
RoundedToHundredth(out, x) ==
    /\ out.t = "number"
    /\ out.nan = x.nan
    /\ ~x.nan => (out.n % 10 = 0 /\ Abs(out.n - x.n) <= 5)

\* C8: scaling a record to the amount its own portion names returns each of the 17
\* numeric fields equal to the input's field rounded to 2 decimals (a NaN field
\* stays NaN) and the same name; the portion label is rewritten.
C8_RatioOneRounds ==
    \A r \in Requests : \A i \in 1..Len(req[r].normalized) :
        SelfScaled(r, i) =>
            /\ \A k \in NumericKeySet :
                RoundedToHundredth(Answer(r).results[i][k], req[r].normalized[i][k])
            /\ Answer(r).results[i]["name"] = req[r].normalized[i]["name"]
            /\ Answer(r).results[i]["portion"] # req[r].normalized[i]["portion"]

C8_BananaAtOwnPortion ==
    /\ SelfScaled(1, 1)
    /\ req[1].query = "banana 118g"
    /\ req[1].normalized[1]["iron"] = Num(314)
    /\ Answer(1).results[1]["iron"] = Num(310)
    /\ Answer(1).results[1]["calories"] = Num(105000)
    /\ Answer(1).results[1]["portion"] = Str("custom serving (118g)")

\* the name of the record built from the element item
NameOf(item, query) ==
    IF Truthy(Get(item, "name")) THEN String(Get(item, "name")) ELSE query

\* C9: a successful lookup returns one record per object-typed element of the
\* model's array, in the array's order (the name of record i is that of the i-th
\* object-typed element, or the query when it has none), and scaling leaves the
\* number, the order and the names of the records as the normalization made them.
C9_OneRecordPerObject ==
    \A r \in Requests :
        FoodsOk(r) =>
            /\ Len(Answer(r).results) = Len(ObjectElements(r))
            /\ Len(Answer(r).results) = Len(req[r].normalized)
            /\ \A i \in 1..Len(Answer(r).results) :
                /\ Answer(r).results[i]["name"] = Str(NameOf(ObjectElements(r)[i], req[r].query))
                /\ Answer(r).results[i]["name"] = req[r].normalized[i]["name"]

C9_DroppedAndKept ==
    /\ Scaled(1)
    /\ Len(req[1].data.a) = 2
    /\ req[1].data.a[1] = Null
    /\ Len(Answer(1).results) = 1
    /\ Answer(1).results[1]["name"] = Str("Banana")

\* C10: after a lookup whose query carries a quantity, the rewritten portion of
\* every returned record, read back as a portion, names the gram-equivalent
\* quantity (desiredGrams) the record's nutrient fields were scaled to.
C10_PortionReadsBack ==
    \A r \in Requests :
        Scaled(r) =>
            \A i \in 1..Len(Answer(r).results) :
                extractGramsFromPortion(Answer(r).results[i]["portion"].s) = req[r].desiredGrams

====
